---- MODULE Spec2Model ----
(***************************************************************************)
(* File-backed repositories and cache-holding managers of the three CLI    *)
(* applications of the repository: assets_app (products, product changes), *)
(* library_app (books, loans, students) and students_app (students,        *)
(* courses, enrollments).                                                  *)
(*                                                                         *)
(* A JSON file is a record [exists, data]: data is the array of dicts the  *)
(* file holds.  An entity is a record of the object's attributes.  An      *)
(* Optional[...] result is <<>> (None) or <<e>>.  A call that can raise    *)
(* returns [raised, val].                                                  *)
(***************************************************************************)
EXTENDS Integers, Sequences, FiniteSets, TLC

VARIABLES
    app,     \* the program (or the repository) this run exercises
    file,    \* collection -> the JSON file of that collection
    cache,   \* collection -> the in-memory list of that collection's manager
    mgr,     \* collection -> "Uninitialized" | "Constructed"
    last     \* the last call: its name, arguments and result

vars == <<app, file, cache, mgr, last>>

(***************************** bounds ***************************************)
MaxLen == 2        \* records per file
MaxStock == 2      \* largest in_stock

(***************************** collections **********************************)
Colls == {"products", "changes", "books", "loans", "lib_students",
          "students", "courses", "enrollments"}
\* a run drives one repository (Colls) or the managers of one package
Apps ==
    {"assets_app/products", "assets_app/history", "library_app",
     "students_app"}

None == <<>>
Some(e) == <<e>>
NoFile == [exists |-> FALSE, data |-> <<>>]
FileOf(data) == [exists |-> TRUE, data |-> data]
\* _ensure_json_file: a missing file is created holding []
ensure_json_file(f) == IF f.exists THEN f ELSE FileOf(<<>>)

Ok(v) == [raised |-> FALSE, val |-> v]
Raise == [raised |-> TRUE, val |-> None]

SeqsUpTo(S, n) == UNION {[1..k -> S] : k \in 0..n}

\* index of the first element of s whose id (under key) is v, 0 if none
FirstIndex(s, key, v) ==
    LET hits == {i \in 1..Len(s) : s[i][key] = v}
    IN IF hits = {} THEN 0 ELSE CHOOSE i \in hits : \A j \in hits : i <= j

(***************************** text conversions *****************************)
DigitChars == <<"0", "1", "2", "3", "4", "5", "6", "7", "8", "9">>
DigitOf(ch) == CHOOSE n \in 0..9 : DigitChars[n + 1] = ch

\* a str that keeps the last digit only
str_last_digit(n) == <<DigitChars[(n % 10) + 1]>>

\* str(n) of a non-negative integer: its decimal digits, as characters
RECURSIVE str(_)
str(n) ==
    IF n < 10 THEN <<DigitChars[n + 1]>>
    ELSE Append(str(n \div 10), DigitChars[(n % 10) + 1])

\* Decimal(s) / int(s) of a string of digits
RECURSIVE Decimal(_)
Decimal(s) ==
    IF Len(s) = 0 THEN 0
    ELSE 10 * Decimal(SubSeq(s, 1, Len(s) - 1)) + DigitOf(s[Len(s)])

\* s.zfill(width): zeros on the left up to width characters
RECURSIVE zfill(_, _)
zfill(s, width) == IF Len(s) >= width THEN s ELSE zfill(<<"0">> \o s, width)

\* s.replace(old, "") for a one-character old: every occurrence is dropped
replace(s, old) == SelectSeq(s, LAMBDA ch : <<ch>> # old)

\* datetime.isoformat() / datetime.fromisoformat(): a datetime is [day, us]
\* an isoformat that drops the microseconds
isoformat_whole_seconds(dt) == <<str(dt.day), str(0)>>

isoformat(dt) == <<str(dt.day), str(dt.us)>>
fromisoformat(s) == [day |-> Decimal(s[1]), us |-> Decimal(s[2])]

(***************************** assets_app: products *************************)
SKUs == {"A", "B"}
Prices == {15}

ProductParser_from_product_to_dict(product) ==
    [id |-> product.id,
     name |-> product.name,
     category |-> product.category,
     inStock |-> product.in_stock,
     price |-> str(product.price),
     description |-> product.description,
     active |-> product.active]

ProductParser_from_dict_to_product(data) ==
    [id |-> data.id,
     name |-> data.name,
     category |-> data.category,
     in_stock |-> data.inStock,
     price |-> Decimal(data.price),
     description |-> data.description,
     active |-> data.active]

ProductRepository_save_all(entities) ==
    FileOf([i \in 1..Len(entities) |->
              ProductParser_from_product_to_dict(entities[i])])

ProductRepository_get_all(f) ==
    IF ~f.exists THEN <<>>
    ELSE [i \in 1..Len(f.data) |-> ProductParser_from_dict_to_product(f.data[i])]

\* opens the file without testing that it exists
ProductRepository_get_by_id(f, id) ==
    IF ~f.exists THEN Raise
    ELSE LET products == [i \in 1..Len(f.data) |->
                            ProductParser_from_dict_to_product(f.data[i])]
             k == FirstIndex(products, "id", id)
         IN IF k = 0 THEN Ok(None) ELSE Ok(Some(products[k]))

\* an update that replaces every record with the id
ProductRepository_update_every(f, entity) ==
    LET products == ProductRepository_get_all(f)
    IN IF FirstIndex(products, "id", entity.id) = 0 THEN f
       ELSE ProductRepository_save_all(
               [i \in 1..Len(products) |->
                  IF products[i].id = entity.id THEN entity ELSE products[i]])

\* an update that writes the collection back whether or not it changed
ProductRepository_update_rewrite(f, entity) ==
    LET products == ProductRepository_get_all(f)
        k == FirstIndex(products, "id", entity.id)
    IN ProductRepository_save_all(
          IF k = 0 THEN products ELSE [products EXCEPT ![k] = entity])

\* the file after update(entity): rewritten only when a record matched
ProductRepository_update(f, entity) ==
    LET products == ProductRepository_get_all(f)
        k == FirstIndex(products, "id", entity.id)
    IN IF k = 0 THEN f
       ELSE ProductRepository_save_all([products EXCEPT ![k] = entity])

\* a delete that drops the matching records
ProductRepository_delete_removing(f, id) ==
    LET products == ProductRepository_get_all(f)
        keep(p) == p.id # id
    IN ProductRepository_save_all(SelectSeq(products, keep))

\* the file after delete(id): every match is deactivated, the file rewritten
ProductRepository_delete(f, id) ==
    LET products == ProductRepository_get_all(f)
    IN ProductRepository_save_all(
          [i \in 1..Len(products) |->
             IF products[i].id = id
             THEN [products[i] EXCEPT !.active = FALSE]
             ELSE products[i]])

Products ==
    [id : SKUs, name : {"n"}, category : {"c"}, in_stock : 0..MaxStock,
     price : Prices, description : {"d"}, active : BOOLEAN]

\* the products a repository is handed directly
SomeProducts == {p \in Products : p.in_stock \in {0, MaxStock}}

(***************************** assets_app: product changes ******************)
ProductChangesParser_from_product_changes_to_dict(change) ==
    [id |-> change.id,
     type |-> change.type,
     date |-> isoformat(change.date),
     stock |-> change.stock,
     reason |-> change.reason,
     user |-> change.user,
     product_id |-> change.product_id]

ProductChangesParser_from_dict_to_product_changes(data) ==
    [id |-> data.id,
     type |-> data.type,
     date |-> fromisoformat(data.date),
     stock |-> data.stock,
     reason |-> data.reason,
     user |-> data.user,
     product_id |-> data.product_id]

ProductChangesRepository_save_all(entities) ==
    FileOf([i \in 1..Len(entities) |->
              ProductChangesParser_from_product_changes_to_dict(entities[i])])

ProductChangesRepository_get_all(f) ==
    IF ~f.exists THEN <<>>
    ELSE [i \in 1..Len(f.data) |->
            ProductChangesParser_from_dict_to_product_changes(f.data[i])]

ProductChangesRepository_get_by_id(f, id) ==
    LET product_changes == ProductChangesRepository_get_all(f)
        k == FirstIndex(product_changes, "id", id)
    IN IF k = 0 THEN Ok(None) ELSE Ok(Some(product_changes[k]))

ProductChangesRepository_update(f, entity) ==
    LET changes == ProductChangesRepository_get_all(f)
        k == FirstIndex(changes, "id", entity.id)
    IN IF k = 0 THEN f
       ELSE ProductChangesRepository_save_all([changes EXCEPT ![k] = entity])

\* the file after delete(id): rewritten only when a record was removed
ProductChangesRepository_delete(f, id) ==
    LET changes == ProductChangesRepository_get_all(f)
        filtered == SelectSeq(changes, LAMBDA c : c.id # id)
    IN IF Len(filtered) # Len(changes)
       THEN ProductChangesRepository_save_all(filtered)
       ELSE f

Now == [day |-> 12, us |-> 0]
ChangeIds == {1, 2}
ProductChangesSet ==
    [id : ChangeIds, type : {"STOCK AUMENTADO"}, date : {Now}, stock : {1},
     reason : {"r"}, user : {"u"}, product_id : SKUs]

(***************************** library_app: books ***************************)
BookParser_from_book_to_dict(book) ==
    [id |-> book.id,
     title |-> book.title,
     author |-> book.author,
     year |-> book.year,
     available |-> book.available]

BookParser_from_dic_to_book(book_dict) ==
    [id |-> book_dict.id,
     title |-> book_dict.title,
     author |-> book_dict.author,
     year |-> book_dict.year,
     available |-> book_dict.available]

BookRepository_save_books(books) ==
    FileOf([i \in 1..Len(books) |-> BookParser_from_book_to_dict(books[i])])

BookRepository_get_books(f) ==
    IF ~f.exists THEN <<>>
    ELSE [i \in 1..Len(f.data) |-> BookParser_from_dic_to_book(f.data[i])]

\* a get_last_book_id that answers 1 for an empty array
BookRepository_get_last_book_id_empty_is_one(f) ==
    IF ~f.exists THEN 0
    ELSE IF Len(f.data) = 0 THEN 1
    ELSE f.data[Len(f.data)].id

BookRepository_get_last_book_id(f) ==
    IF ~f.exists THEN 0
    ELSE IF Len(f.data) = 0 THEN 0
    ELSE f.data[Len(f.data)].id

\* opens the file without testing that it exists
BookRepository_get_book_by_id(f, book_id) ==
    IF ~f.exists THEN Raise
    ELSE LET books == [i \in 1..Len(f.data) |->
                         BookParser_from_dic_to_book(f.data[i])]
             k == FirstIndex(books, "id", book_id)
         IN IF k = 0 THEN Ok(None) ELSE Ok(Some(books[k]))

\* [file, ret]: the file after update_book(updated_book) and what it returns
BookRepository_update_book(f, updated_book) ==
    IF ~f.exists THEN [file |-> f, ret |-> FALSE]
    ELSE LET k == FirstIndex(f.data, "id", updated_book.id)
         IN IF k = 0 THEN [file |-> f, ret |-> FALSE]
            ELSE [file |-> FileOf([f.data EXCEPT
                            ![k] = BookParser_from_book_to_dict(updated_book)]),
                  ret |-> TRUE]

BookIds == {1, 2}
Books ==
    [id : BookIds, title : {"t"}, author : {"a"}, year : {"1949"},
     available : BOOLEAN]

(***************************** library_app: loans ***************************)
LoanParser_loan_to_dict(loan) ==
    [id |-> loan.id,
     book_id |-> loan.book_id,
     date |-> isoformat(loan.date),
     return_date |-> isoformat(loan.return_date),
     student_id |-> loan.student_id]

LoanParser_dict_to_loan(loan_dict) ==
    [id |-> loan_dict.id,
     student_id |-> loan_dict.student_id,
     book_id |-> loan_dict.book_id,
     date |-> fromisoformat(loan_dict.date),
     return_date |-> fromisoformat(loan_dict.return_date)]

LoanRepository_get_loans(f) ==
    IF ~f.exists THEN <<>>
    ELSE [i \in 1..Len(f.data) |-> LoanParser_dict_to_loan(f.data[i])]

LoanRepository_save_loans(loans) ==
    FileOf([i \in 1..Len(loans) |-> LoanParser_loan_to_dict(loans[i])])

\* datetime.timedelta(days=10) of create_loan
LoanDays == 10
ReturnDate(now) == [now EXCEPT !.day = now.day + LoanDays]
LibStudentIds == {1, 2}
LoanIds == {1, 2}
Loans ==
    [id : LoanIds, student_id : LibStudentIds, book_id : BookIds,
     date : {Now}, return_date : {ReturnDate(Now)}]

(***************************** library_app: students ************************)
StudentParser_from_dict_to_student(data) ==
    [student_id |-> data.id,
     name |-> data.name,
     last_name |-> data.last_name,
     phone_number |-> data.phone_number,
     email |-> data.email]

StudentParser_from_student_to_dict(student) ==
    [id |-> student.student_id,
     name |-> student.name,
     last_name |-> student.last_name,
     phone_number |-> student.phone_number,
     email |-> student.email]

\* library_app/student/student_repository.py is not among the sources: the
\* repository is the spec's 4.2 (absent file: empty; lookup miss: None)
LibStudentRepository_save_students(students) ==
    FileOf([i \in 1..Len(students) |->
              StudentParser_from_student_to_dict(students[i])])

LibStudentRepository_get_students(f) ==
    IF ~f.exists THEN <<>>
    ELSE [i \in 1..Len(f.data) |-> StudentParser_from_dict_to_student(f.data[i])]

LibStudentRepository_get_student_by_id(f, id) ==
    LET students == LibStudentRepository_get_students(f)
        k == FirstIndex(students, "student_id", id)
    IN IF k = 0 THEN Ok(None) ELSE Ok(Some(students[k]))

LibStudentRepository_get_last_student_id(f) ==
    IF ~f.exists THEN 0
    ELSE IF Len(f.data) = 0 THEN 0
    ELSE f.data[Len(f.data)].id

LibStudents ==
    [student_id : LibStudentIds, name : {"n"}, last_name : {"l"},
     phone_number : {"p"}, email : {"e"}]

(***************************** students_app: students ***********************)
\* config/ids.py is not among the sources: a prefix is one leading token
STUDENT_ID_PREFIX == <<"S">>
COURSE_ID_PREFIX == <<"C">>

\* students_app/student/student_parser.py is not among the sources: the
\* parser maps the record of 6 (id, name, last_name, phone_number, email,
\* address) to the entity's attributes and back
AppStudentParser_from_student_to_dict(student) ==
    [id |-> student.student_id,
     name |-> student.name,
     last_name |-> student.last_name,
     phone_number |-> student.phone_number,
     email |-> student.email,
     address |-> student.address]

AppStudentParser_from_dict_to_student(data) ==
    [student_id |-> data.id,
     name |-> data.name,
     last_name |-> data.last_name,
     phone_number |-> data.phone_number,
     email |-> data.email,
     address |-> data.address]

StudentRepository_save_students(students) ==
    FileOf([i \in 1..Len(students) |->
              AppStudentParser_from_student_to_dict(students[i])])

StudentRepository_get_students(f) ==
    IF ~f.exists THEN <<>>
    ELSE [i \in 1..Len(f.data) |->
            AppStudentParser_from_dict_to_student(f.data[i])]

\* opens the file without testing that it exists
StudentRepository_get_student_by_id(f, student_id) ==
    IF ~f.exists THEN Raise
    ELSE LET students == [i \in 1..Len(f.data) |->
                            AppStudentParser_from_dict_to_student(f.data[i])]
             k == FirstIndex(students, "student_id", student_id)
         IN IF k = 0 THEN Ok(None) ELSE Ok(Some(students[k]))

AppStudentIds == {STUDENT_ID_PREFIX \o <<"0", "0", "1">>, STUDENT_ID_PREFIX \o <<"0", "0", "2">>}
AppStudents ==
    [student_id : AppStudentIds, name : {"n"}, last_name : {"l"},
     phone_number : {"p"}, email : {"e"}, address : {"a"}]

(***************************** students_app: courses ************************)
CourseParser_from_course_to_dict(course) ==
    [id |-> course.course_id,
     description |-> course.description,
     max_students |-> course.max_students]

CourseParser_from_dict_to_course(course) ==
    [course_id |-> course.id,
     description |-> course.description,
     max_students |-> course.max_students]

CourseRepository_save_courses(courses) ==
    FileOf([i \in 1..Len(courses) |->
              CourseParser_from_course_to_dict(courses[i])])

\* opens the file without testing that it exists
CourseRepository_get_course_by_id(f, course_id) ==
    IF ~f.exists THEN Raise
    ELSE LET courses == [i \in 1..Len(f.data) |->
                           CourseParser_from_dict_to_course(f.data[i])]
             k == FirstIndex(courses, "course_id", course_id)
         IN IF k = 0 THEN Ok(None) ELSE Ok(Some(courses[k]))

CourseRepository_get_courses(f) ==
    IF ~f.exists THEN <<>>
    ELSE [i \in 1..Len(f.data) |-> CourseParser_from_dict_to_course(f.data[i])]

CourseIds == {COURSE_ID_PREFIX \o <<"0", "0", "1">>, COURSE_ID_PREFIX \o <<"0", "0", "2">>}
Courses ==
    [course_id : CourseIds, description : {"d"}, max_students : {1, 2}]

(***************************** students_app: enrollments ********************)
EnrollmentParser_enrollment_to_dict(enrollment) ==
    [student_id |-> enrollment.student_id,
     course_id |-> enrollment.course_id]

EnrollmentParser_dict_to_enrollment(enrollment) ==
    [student_id |-> enrollment.student_id,
     course_id |-> enrollment.course_id]

EnrollmentRepository_save_enrollments(enrollments) ==
    FileOf([i \in 1..Len(enrollments) |->
              EnrollmentParser_enrollment_to_dict(enrollments[i])])

EnrollmentRepository_get_enrollments(f) ==
    IF ~f.exists THEN <<>>
    ELSE [i \in 1..Len(f.data) |->
            EnrollmentParser_dict_to_enrollment(f.data[i])]

EnrollmentRepository_get_enrollments_by_course_id(f, course_id) ==
    IF ~f.exists THEN <<>>
    ELSE SelectSeq([i \in 1..Len(f.data) |->
                      EnrollmentParser_dict_to_enrollment(f.data[i])],
                   LAMBDA e : e.course_id = course_id)

Enrollments == [student_id : AppStudentIds, course_id : CourseIds]

(***************************** the repositories, by collection **************)
\* the file save_all / save_books / save_loans / ... writes
save_all(c, entities) ==
    CASE c = "products" -> ProductRepository_save_all(entities)
      [] c = "changes" -> ProductChangesRepository_save_all(entities)
      [] c = "books" -> BookRepository_save_books(entities)
      [] c = "loans" -> LoanRepository_save_loans(entities)
      [] c = "lib_students" -> LibStudentRepository_save_students(entities)
      [] c = "students" -> StudentRepository_save_students(entities)
      [] c = "courses" -> CourseRepository_save_courses(entities)
      [] c = "enrollments" -> EnrollmentRepository_save_enrollments(entities)

\* what get_all / get_books / get_loans / ... returns
get_all(c, f) ==
    CASE c = "products" -> ProductRepository_get_all(f)
      [] c = "changes" -> ProductChangesRepository_get_all(f)
      [] c = "books" -> BookRepository_get_books(f)
      [] c = "loans" -> LoanRepository_get_loans(f)
      [] c = "lib_students" -> LibStudentRepository_get_students(f)
      [] c = "students" -> StudentRepository_get_students(f)
      [] c = "courses" -> CourseRepository_get_courses(f)
      [] c = "enrollments" -> EnrollmentRepository_get_enrollments(f)

ByIdColls == {"products", "changes", "books", "lib_students", "students", "courses"}
UpdateColls == {"products", "changes", "books"}
DeleteColls == {"products", "changes"}

\* what get_by_id / get_book_by_id / get_student_by_id / get_course_by_id does
get_by_id(c, f, id) ==
    CASE c = "products" -> ProductRepository_get_by_id(f, id)
      [] c = "changes" -> ProductChangesRepository_get_by_id(f, id)
      [] c = "books" -> BookRepository_get_book_by_id(f, id)
      [] c = "lib_students" -> LibStudentRepository_get_student_by_id(f, id)
      [] c = "students" -> StudentRepository_get_student_by_id(f, id)
      [] c = "courses" -> CourseRepository_get_course_by_id(f, id)

\* [file, ret] of update / update_book (update returns None)
update(c, f, entity) ==
    CASE c = "products" ->
           [file |-> ProductRepository_update(f, entity), ret |-> None]
      [] c = "changes" ->
           [file |-> ProductChangesRepository_update(f, entity), ret |-> None]
      [] c = "books" -> BookRepository_update_book(f, entity)

delete(c, f, id) ==
    CASE c = "products" -> ProductRepository_delete(f, id)
      [] c = "changes" -> ProductChangesRepository_delete(f, id)

\* the attribute that holds an entity's identifier
IdKey(c) ==
    CASE c \in {"products", "changes", "books", "loans"} -> "id"
      [] c \in {"lib_students", "students"} -> "student_id"
      [] c = "courses" -> "course_id"

Entities(c) ==
    CASE c = "products" -> SomeProducts
      [] c = "changes" -> ProductChangesSet
      [] c = "books" -> Books
      [] c = "loans" -> Loans
      [] c = "lib_students" -> LibStudents
      [] c = "students" -> AppStudents
      [] c = "courses" -> Courses
      [] c = "enrollments" -> Enrollments

Ids(c) == {e[IdKey(c)] : e \in Entities(c)}

(***************************** the calls on a repository ********************)
Call(op, c, arg, ret, raised) ==
    [op |-> op, coll |-> c, arg |-> arg, ret |-> ret, raised |-> raised]

Init ==
    /\ app \in Apps \cup Colls
    /\ file = [c \in Colls |-> NoFile]
    /\ cache = [c \in Colls |-> <<>>]
    /\ mgr = [c \in Colls |-> "Uninitialized"]
    /\ last = Call("init", "", None, None, FALSE)

\* save_all overwrites the file: what it leaves does not depend on what it
\* finds, so it is called on the fresh state
RepoSaveAll ==
    /\ app \in Colls
    /\ last.op = "init"
    /\ \E xs \in SeqsUpTo(Entities(app), MaxLen) :
         /\ file' = [file EXCEPT ![app] = save_all(app, xs)]
         /\ last' = Call("save_all", app, xs, None, FALSE)
    /\ UNCHANGED <<app, cache, mgr>>

\* a get_all that leaves an empty file behind when it found none
RepoGetAll_creating ==
    /\ app \in Colls
    /\ file' = [file EXCEPT ![app] = ensure_json_file(@)]
    /\ last' = Call("get_all", app, None, get_all(app, file[app]), FALSE)
    /\ UNCHANGED <<app, cache, mgr>>

RepoGetAll ==
    /\ app \in Colls
    /\ last' = Call("get_all", app, None, get_all(app, file[app]), FALSE)
    /\ UNCHANGED <<app, file, cache, mgr>>

RepoGetById ==
    /\ app \in ByIdColls
    /\ \E id \in Ids(app) :
         LET r == get_by_id(app, file[app], id)
         IN last' = Call("get_by_id", app, id, r.val, r.raised)
    /\ UNCHANGED <<app, file, cache, mgr>>

RepoUpdate ==
    /\ app \in UpdateColls
    /\ \E e \in Entities(app) :
         LET r == update(app, file[app], e)
         IN /\ file' = [file EXCEPT ![app] = r.file]
            /\ last' = Call("update", app, e, r.ret, FALSE)
    /\ UNCHANGED <<app, cache, mgr>>

RepoDelete ==
    /\ app \in DeleteColls
    /\ \E id \in Ids(app) :
         /\ file' = [file EXCEPT ![app] = delete(app, file[app], id)]
         /\ last' = Call("delete", app, id, None, FALSE)
    /\ UNCHANGED <<app, cache, mgr>>

(***************************** assets_app: ProductManager ********************)
\* load_data: the cache it assigns
ProductManager_load_data(f) == ProductRepository_get_all(f)

\* save_data: [file, products] after writing the cache and reloading it
ProductManager_save_data(products) ==
    LET f2 == ProductRepository_save_all(products)
    IN [file |-> f2, products |-> ProductManager_load_data(f2)]

ProductManager_create_product(products, product) ==
    ProductManager_save_data(Append(products, product))

ProductManager_get_product_by_id(f, id) == ProductRepository_get_by_id(f, id)

\* an update_product that keeps the list it had
ProductManager_update_product_no_reload(f, product) ==
    [file |-> ProductRepository_update(f, product),
     products |-> ProductManager_load_data(f)]

ProductManager_update_product(f, product) ==
    LET f2 == ProductRepository_update(f, product)
    IN [file |-> f2, products |-> ProductManager_load_data(f2)]

\* a delete_product that deletes whatever the answer
ProductManager_delete_product_unasked(f, products, product, delete_product) ==
    LET f2 == ProductRepository_delete(f, product.id)
    IN [file |-> f2, products |-> ProductManager_load_data(f2)]

\* delete_product: delete_product is the answer to Inputs.get_boolean
ProductManager_delete_product(f, products, product, delete_product) ==
    IF delete_product
    THEN LET f2 == ProductRepository_delete(f, product.id)
         IN [file |-> f2, products |-> ProductManager_load_data(f2)]
    ELSE [file |-> f, products |-> products]

\* a delete_product_stock that takes the amount whatever the stock
ProductManager_delete_product_stock_unchecked(f, products, product, amount) ==
    LET p2 == [product EXCEPT !.in_stock = @ - amount]
        u == ProductManager_update_product(f, p2)
    IN [file |-> u.file, products |-> u.products, ret |-> TRUE,
        product |-> p2, alert |-> (p2.in_stock <= 1)]

\* delete_product_stock: product is the passed object after the call, alert
\* whether show_stock_alert was called
\* a delete_product_stock that alerts only once nothing is left
ProductManager_delete_product_stock_alert_at_zero(f, products, product, amount) ==
    IF product.in_stock < amount
    THEN [file |-> f, products |-> products, ret |-> FALSE,
          product |-> product, alert |-> FALSE]
    ELSE LET p2 == [product EXCEPT !.in_stock = @ - amount]
             u == ProductManager_update_product(f, p2)
         IN [file |-> u.file, products |-> u.products, ret |-> TRUE,
             product |-> p2, alert |-> (p2.in_stock < 1)]

ProductManager_delete_product_stock(f, products, product, amount) ==
    IF product.in_stock < amount
    THEN [file |-> f, products |-> products, ret |-> FALSE,
          product |-> product, alert |-> FALSE]
    ELSE LET p2 == [product EXCEPT !.in_stock = @ - amount]
             u == ProductManager_update_product(f, p2)
         IN [file |-> u.file, products |-> u.products, ret |-> TRUE,
             product |-> p2, alert |-> (p2.in_stock <= 1)]

\* an add_product_stock that changes the object and stores nothing
ProductManager_add_product_stock_unsaved(f, product, amount) ==
    [file |-> f, products |-> ProductManager_load_data(f),
     product |-> [product EXCEPT !.in_stock = @ + amount]]

ProductManager_add_product_stock(f, product, amount) ==
    LET p2 == [product EXCEPT !.in_stock = @ + amount]
        u == ProductManager_update_product(f, p2)
    IN [file |-> u.file, products |-> u.products, product |-> p2]

(***************************** assets_app: ProductChangesManager ************)
ProductChangesManager_load_data(f) == ProductChangesRepository_get_all(f)

\* save_all of the manager: write the cache, reload it
ProductChangesManager_save_all(product_changes) ==
    LET f2 == ProductChangesRepository_save_all(product_changes)
    IN [file |-> f2, product_changes |-> ProductChangesManager_load_data(f2)]

ProductChangesManager_create_product_change(product_changes, product_change) ==
    ProductChangesManager_save_all(Append(product_changes, product_change))

\* get_last_id reloads the cache, then reads its last record
ProductChangesManager_get_last_id(f) ==
    LET product_changes == ProductChangesManager_load_data(f)
    IN [product_changes |-> product_changes,
        ret |-> IF Len(product_changes) = 0 THEN 1
                ELSE product_changes[Len(product_changes)].id + 1]

(***************************** assets_app: the program **********************)
Constructed(c) == mgr[c] = "Constructed"
AssetsColls == {"products", "changes"}

\* build_container: both files ensured, both managers constructed
build_container_assets ==
    /\ app \in {"assets_app/products", "assets_app/history", "assets_app/menu"}
    /\ \A c \in AssetsColls : ~Constructed(c)
    /\ LET pf == ensure_json_file(file["products"])
           cf == ensure_json_file(file["changes"])
       IN /\ file' = [file EXCEPT !["products"] = pf, !["changes"] = cf]
          /\ cache' = [cache EXCEPT
                         !["products"] = ProductManager_load_data(pf),
                         !["changes"] = ProductChangesManager_load_data(cf)]
    /\ mgr' = [mgr EXCEPT !["products"] = "Constructed", !["changes"] = "Constructed"]
    /\ last' = Call("build_container", "products", None, None, FALSE)
    /\ UNCHANGED app

\* ProductManager(repository), without the composition root
ProductManager_init ==
    /\ app = "assets_app/products"
    /\ ~Constructed("products")
    /\ cache' = [cache EXCEPT
                   !["products"] = ProductManager_load_data(file["products"])]
    /\ mgr' = [mgr EXCEPT !["products"] = "Constructed"]
    /\ last' = Call("__init__", "products", None, None, FALSE)
    /\ UNCHANGED <<app, file>>

ProductChangesManager_init ==
    /\ app = "assets_app/history"
    /\ ~Constructed("changes")
    /\ cache' = [cache EXCEPT
                   !["changes"] = ProductChangesManager_load_data(file["changes"])]
    /\ mgr' = [mgr EXCEPT !["changes"] = "Constructed"]
    /\ last' = Call("__init__", "changes", None, None, FALSE)
    /\ UNCHANGED <<app, file>>

\* the process ends; the files stay
Exit ==
    /\ \E c \in Colls : Constructed(c)
    /\ mgr' = [c \in Colls |-> "Uninitialized"]
    /\ cache' = [c \in Colls |-> <<>>]
    /\ last' = Call("exit", "", None, None, FALSE)
    /\ UNCHANGED <<app, file>>

\* the products ProductFactory.create_product builds
NewProducts == {p \in Products : p.active}

create_product ==
    /\ app = "assets_app/products"
    /\ Constructed("products")
    /\ Len(cache["products"]) < Cardinality(SKUs)
    /\ \E product \in NewProducts :
         LET r == ProductManager_create_product(cache["products"], product)
         IN /\ file' = [file EXCEPT !["products"] = r.file]
            /\ cache' = [cache EXCEPT !["products"] = r.products]
            /\ last' = Call("create_product", "products", product, None, FALSE)
    /\ UNCHANGED <<app, mgr>>

get_product_by_id ==
    /\ app = "assets_app/products"
    /\ Constructed("products")
    /\ \E id \in SKUs :
         LET r == ProductManager_get_product_by_id(file["products"], id)
         IN last' = Call("get_product_by_id", "products", id, r.val, r.raised)
    /\ UNCHANGED <<app, file, cache, mgr>>

\* the products a caller holds are those get_product_by_id returned
Fetched(id) ==
    LET r == ProductManager_get_product_by_id(file["products"], id)
    IN IF r.raised THEN None ELSE r.val

\* update_product(product): a fetched product with its stock edited
update_product ==
    /\ app = "assets_app/products"
    /\ Constructed("products")
    /\ \E id \in SKUs, in_stock \in 0..MaxStock :
         /\ Fetched(id) # None
         /\ LET product == [Fetched(id)[1] EXCEPT !.in_stock = in_stock]
                r == ProductManager_update_product(file["products"], product)
            IN /\ file' = [file EXCEPT !["products"] = r.file]
               /\ cache' = [cache EXCEPT !["products"] = r.products]
               /\ last' = Call("update_product", "products", product, None, FALSE)
    /\ UNCHANGED <<app, mgr>>

delete_product ==
    /\ app = "assets_app/products"
    /\ Constructed("products")
    /\ \E id \in SKUs, answer \in BOOLEAN :
         /\ Fetched(id) # None
         /\ LET product == Fetched(id)[1]
                r == ProductManager_delete_product(file["products"],
                        cache["products"], product, answer)
            IN /\ file' = [file EXCEPT !["products"] = r.file]
               /\ cache' = [cache EXCEPT !["products"] = r.products]
               /\ last' = Call("delete_product", "products",
                               [product |-> product, answer |-> answer],
                               None, FALSE)
    /\ UNCHANGED <<app, mgr>>

delete_product_stock ==
    /\ app = "assets_app/products"
    /\ Constructed("products")
    /\ \E id \in SKUs, amount \in 0..MaxStock :
         /\ Fetched(id) # None
         /\ LET product == Fetched(id)[1]
                r == ProductManager_delete_product_stock(file["products"],
                        cache["products"], product, amount)
            IN /\ file' = [file EXCEPT !["products"] = r.file]
               /\ cache' = [cache EXCEPT !["products"] = r.products]
               /\ last' = Call("delete_product_stock", "products",
                               [product |-> product, amount |-> amount],
                               [val |-> r.ret, product |-> r.product,
                                alert |-> r.alert], FALSE)
    /\ UNCHANGED <<app, mgr>>

add_product_stock ==
    /\ app = "assets_app/products"
    /\ Constructed("products")
    /\ \E id \in SKUs, amount \in 0..MaxStock :
         /\ Fetched(id) # None
         /\ Fetched(id)[1].in_stock + amount <= MaxStock
         /\ LET product == Fetched(id)[1]
                r == ProductManager_add_product_stock(file["products"],
                        product, amount)
            IN /\ file' = [file EXCEPT !["products"] = r.file]
               /\ cache' = [cache EXCEPT !["products"] = r.products]
               /\ last' = Call("add_product_stock", "products",
                               [product |-> product, amount |-> amount],
                               [product |-> r.product], FALSE)
    /\ UNCHANGED <<app, mgr>>

\* create_product_change(ProductChanges(get_last_id(), ...)), as Menu calls it
create_product_change ==
    /\ app = "assets_app/history"
    /\ Constructed("changes")
    /\ Len(get_all("changes", file["changes"])) < Cardinality(ChangeIds)
    /\ \E change \in ProductChangesSet :
         LET g == ProductChangesManager_get_last_id(file["changes"])
             r == ProductChangesManager_create_product_change(
                     g.product_changes, change)
         IN /\ change.id = g.ret
            /\ file' = [file EXCEPT !["changes"] = r.file]
            /\ cache' = [cache EXCEPT !["changes"] = r.product_changes]
            /\ last' = Call("create_product_change", "changes", change,
                            None, FALSE)
    /\ UNCHANGED <<app, mgr>>

(***************************** assets_app: Menu *****************************)
\* the user menu(user) runs for, and the reasons typed at the prompts
MenuUser == "u"
Reasons == {"r"}
MenuChangeIds == {1, 2, 3}

\* what the Menu works on: both managers' files and lists
MenuState ==
    [pfile |-> file["products"], products |-> cache["products"],
     cfile |-> file["changes"], changes |-> cache["changes"]]

\* a handler's outcome: the state it leaves, whether it printed "El Producto
\* no existe.", whether an exception left it
MenuResult(s, reported, raised) ==
    [pfile |-> s.pfile, products |-> s.products, cfile |-> s.cfile,
     changes |-> s.changes, reported |-> reported, raised |-> raised]

\* create_product_change(ProductChanges(get_last_id(), type, now(), stock,
\* reason, user, product_id)): get_last_id is evaluated first
Menu_create_product_change(s, type, stock, reason, user, product_id) ==
    LET g == ProductChangesManager_get_last_id(s.cfile)
        c == ProductChangesManager_create_product_change(g.product_changes,
                 [id |-> g.ret, type |-> type, date |-> Now, stock |-> stock,
                  reason |-> reason, user |-> user, product_id |-> product_id])
    IN [s EXCEPT !.cfile = c.file, !.changes = c.product_changes]

Menu_create_product(s, new_product, user) ==
    LET p == ProductManager_create_product(s.products, new_product)
        s2 == [s EXCEPT !.pfile = p.file, !.products = p.products]
    IN MenuResult(Menu_create_product_change(s2, "Producto Creado",
                      new_product.in_stock, "Agregado nuevo producto.", user,
                      new_product.id),
                  FALSE, FALSE)

Menu_show_product_changes_by_product(s, id) ==
    LET got == ProductManager_get_product_by_id(s.pfile, id)
    IN IF got.raised THEN MenuResult(s, FALSE, TRUE)
       ELSE IF got.val = None \/ ~got.val[1].active
            THEN MenuResult(s, TRUE, FALSE)
            ELSE MenuResult(s, FALSE, FALSE)

\* a reduce_product_stock that logs the reduction whatever delete_product_stock
\* answers
Menu_reduce_product_stock_always_logging(s, id, reason, amount, user) ==
    LET got == ProductManager_get_product_by_id(s.pfile, id)
    IN IF got.raised THEN MenuResult(s, FALSE, TRUE)
       ELSE IF got.val = None \/ ~got.val[1].active
            THEN MenuResult(s, TRUE, FALSE)
            ELSE LET d == ProductManager_delete_product_stock(s.pfile,
                              s.products, got.val[1], amount)
                     s2 == [s EXCEPT !.pfile = d.file, !.products = d.products]
                 IN MenuResult(Menu_create_product_change(s2,
                                   "STOCK REDUCIDO", amount, reason, user,
                                   got.val[1].id),
                               FALSE, FALSE)

Menu_reduce_product_stock(s, id, reason, amount, user) ==
    LET got == ProductManager_get_product_by_id(s.pfile, id)
    IN IF got.raised THEN MenuResult(s, FALSE, TRUE)
       ELSE IF got.val = None \/ ~got.val[1].active
            THEN MenuResult(s, TRUE, FALSE)
            ELSE LET d == ProductManager_delete_product_stock(s.pfile,
                              s.products, got.val[1], amount)
                     s2 == [s EXCEPT !.pfile = d.file, !.products = d.products]
                 IN IF d.ret
                    THEN MenuResult(Menu_create_product_change(s2,
                                        "STOCK REDUCIDO", amount, reason, user,
                                        got.val[1].id),
                                    FALSE, FALSE)
                    ELSE MenuResult(s2, FALSE, FALSE)

Menu_get_more_stock_for_product(s, id, reason, amount, user) ==
    LET got == ProductManager_get_product_by_id(s.pfile, id)
    IN IF got.raised THEN MenuResult(s, FALSE, TRUE)
       ELSE IF got.val = None \/ ~got.val[1].active
            THEN MenuResult(s, TRUE, FALSE)
            ELSE LET a == ProductManager_add_product_stock(s.pfile,
                              got.val[1], amount)
                     s2 == [s EXCEPT !.pfile = a.file, !.products = a.products]
                 IN MenuResult(Menu_create_product_change(s2,
                                   "STOCK AUMENTADO", amount, reason, user,
                                   got.val[1].id),
                               FALSE, FALSE)

\* Menu.delete_product prints "El Producto no existe." and goes on: with no
\* product, ProductManager.delete_product fails on product.id before it asks;
\* with an inactive one it asks, deletes on a yes, and the deletion is logged
\* whatever the answer
Menu_delete_product(s, id, reason, answer, user) ==
    LET got == ProductManager_get_product_by_id(s.pfile, id)
    IN IF got.raised THEN MenuResult(s, FALSE, TRUE)
       ELSE IF got.val = None THEN MenuResult(s, TRUE, TRUE)
       ELSE LET product == got.val[1]
                d == ProductManager_delete_product(s.pfile, s.products,
                         product, answer)
                s2 == [s EXCEPT !.pfile = d.file, !.products = d.products]
            IN MenuResult(Menu_create_product_change(s2,
                              "PRODUCTO ELIMINADO", 0, reason, user,
                              product.id),
                          ~product.active, FALSE)

\* the history stays within the ids of the model
MenuFits(r) == \A i \in 1..Len(r.changes) : r.changes[i].id \in MenuChangeIds

\* a handler returned and menu(user) shows the options again, or it raised:
\* nothing catches the exception and the process ends
MenuDone(op, arg, r) ==
    /\ MenuFits(r)
    /\ file' = [file EXCEPT !["products"] = r.pfile, !["changes"] = r.cfile]
    /\ cache' = IF r.raised THEN [c \in Colls |-> <<>>]
                ELSE [cache EXCEPT !["products"] = r.products,
                                   !["changes"] = r.changes]
    /\ mgr' = IF r.raised THEN [c \in Colls |-> "Uninitialized"] ELSE mgr
    /\ last' = Call(op, "products", arg, [reported |-> r.reported], r.raised)
    /\ UNCHANGED app

InMenu == app = "assets_app/menu" /\ Constructed("products")

option_1_create_product ==
    /\ InMenu
    /\ Len(cache["products"]) < Cardinality(SKUs)
    /\ \E new_product \in NewProducts :
         MenuDone("Menu.create_product", [product |-> new_product],
                  Menu_create_product(MenuState, new_product, MenuUser))

option_4_reduce_product_stock ==
    /\ InMenu
    /\ \E id \in SKUs, reason \in Reasons, amount \in 0..MaxStock :
         MenuDone("Menu.reduce_product_stock",
                  [id |-> id, reason |-> reason, amount |-> amount],
                  Menu_reduce_product_stock(MenuState, id, reason, amount,
                                            MenuUser))

option_5_get_more_stock_for_product ==
    /\ InMenu
    /\ \E id \in SKUs, reason \in Reasons, amount \in 0..MaxStock :
         /\ Fetched(id) # None => Fetched(id)[1].in_stock + amount <= MaxStock
         /\ MenuDone("Menu.get_more_stock_for_product",
                     [id |-> id, reason |-> reason, amount |-> amount],
                     Menu_get_more_stock_for_product(MenuState, id, reason,
                                                     amount, MenuUser))

option_6_delete_product ==
    /\ InMenu
    /\ \E id \in SKUs, reason \in Reasons, answer \in BOOLEAN :
         MenuDone("Menu.delete_product",
                  [id |-> id, reason |-> reason, answer |-> answer],
                  Menu_delete_product(MenuState, id, reason, answer, MenuUser))

option_8_show_product_changes_by_product ==
    /\ InMenu
    /\ \E id \in SKUs :
         MenuDone("Menu.show_product_changes_by_product", [id |-> id],
                  Menu_show_product_changes_by_product(MenuState, id))

(***************************** library_app: managers ************************)
BookManager_load_data(f) == BookRepository_get_books(f)

BookManager_save_data(books) ==
    LET f2 == BookRepository_save_books(books)
    IN [file |-> f2, books |-> BookManager_load_data(f2)]

BookManager_add_book(books, book) ==
    BookManager_save_data(Append(books, book))

\* a build_new_book_id that answers the last id again once there is one
BookManager_build_new_book_id_repeating(f) ==
    IF BookRepository_get_last_book_id(f) = 0 THEN 1
    ELSE BookRepository_get_last_book_id(f)

BookManager_build_new_book_id(f) == BookRepository_get_last_book_id(f) + 1

BookManager_get_book_by_id(f, id) == BookRepository_get_book_by_id(f, id)

\* a deactivate_book that changes the book it looked up and writes nothing
BookManager_deactivate_book_unsaved(f, books, id) ==
    LET g == BookManager_get_book_by_id(f, id)
    IN [file |-> f, books |-> books, raised |-> g.raised]

\* deactivate_book: [file, books, raised]
BookManager_deactivate_book(f, books, id) ==
    LET g == BookManager_get_book_by_id(f, id)
    IN IF g.raised THEN [file |-> f, books |-> books, raised |-> TRUE]
       ELSE IF g.val = None
       THEN [file |-> f, books |-> books, raised |-> FALSE]
       ELSE LET book == [g.val[1] EXCEPT !.available = FALSE]
                u == BookRepository_update_book(f, book)
            IN [file |-> u.file, books |-> BookManager_load_data(u.file),
                raised |-> FALSE]

LibStudentManager_load_data(f) == LibStudentRepository_get_students(f)

LibStudentManager_save_data(students) ==
    LET f2 == LibStudentRepository_save_students(students)
    IN [file |-> f2, students |-> LibStudentManager_load_data(f2)]

LibStudentManager_add_student(students, student) ==
    LibStudentManager_save_data(Append(students, student))

LibStudentManager_get_student_by_id(f, id) ==
    LibStudentRepository_get_student_by_id(f, id)

LibStudentManager_build_new_student_id(f) ==
    LibStudentRepository_get_last_student_id(f) + 1

LoanManager_load_data(f) == LoanRepository_get_loans(f)

LoanManager_save_data(loans) ==
    LET f2 == LoanRepository_save_loans(loans)
    IN [file |-> f2, loans |-> LoanManager_load_data(f2)]

LoanManager_build_loan_id(loans) ==
    IF Len(loans) = 0 THEN 1 ELSE loans[Len(loans)].id + 1

\* a create_loan that lends the book whether or not it is available
LoanManager_create_loan_any_book(files, caches, student_id, book_id) ==
    LET unchanged == [file |-> files, cache |-> caches, raised |-> FALSE]
        student == LibStudentManager_get_student_by_id(
                       files["lib_students"], student_id)
        book == BookManager_get_book_by_id(files["books"], book_id)
    IN IF student.raised \/ book.raised THEN [unchanged EXCEPT !.raised = TRUE]
       ELSE IF student.val = None \/ book.val = None THEN unchanged
       ELSE LET loan == [id |-> LoanManager_build_loan_id(caches["loans"]),
                         student_id |-> student_id,
                         book_id |-> book_id,
                         date |-> Now,
                         return_date |-> ReturnDate(Now)]
                sv == LoanManager_save_data(Append(caches["loans"], loan))
                d == BookManager_deactivate_book(files["books"],
                        caches["books"], book.val[1].id)
            IN [file |-> [files EXCEPT !["loans"] = sv.file,
                                       !["books"] = d.file],
                cache |-> [caches EXCEPT !["loans"] = sv.loans,
                                         !["books"] = d.books],
                raised |-> d.raised]

\* create_loan with the two ids read from the console: the files and caches
\* it leaves, and whether it raised
LoanManager_create_loan(files, caches, student_id, book_id) ==
    LET unchanged == [file |-> files, cache |-> caches, raised |-> FALSE]
        student == LibStudentManager_get_student_by_id(
                       files["lib_students"], student_id)
        book == BookManager_get_book_by_id(files["books"], book_id)
    IN IF student.raised THEN [unchanged EXCEPT !.raised = TRUE]
       ELSE IF student.val = None THEN unchanged
       ELSE IF book.raised THEN [unchanged EXCEPT !.raised = TRUE]
       ELSE IF book.val = None THEN unchanged
       ELSE IF book.val[1].available = FALSE THEN unchanged
       ELSE LET loan == [id |-> LoanManager_build_loan_id(caches["loans"]),
                         student_id |-> student_id,
                         book_id |-> book_id,
                         date |-> Now,
                         return_date |-> ReturnDate(Now)]
                sv == LoanManager_save_data(Append(caches["loans"], loan))
                d == BookManager_deactivate_book(files["books"],
                        caches["books"], book.val[1].id)
            IN [file |-> [files EXCEPT !["loans"] = sv.file,
                                       !["books"] = d.file],
                cache |-> [caches EXCEPT !["loans"] = sv.loans,
                                         !["books"] = d.books],
                raised |-> d.raised]

(***************************** library_app: the program *********************)
LibraryColls == {"lib_students", "books", "loans"}

\* build_container: the three files ensured, the managers constructed, the
\* books loaded through _BookManager__load_data
build_container_library ==
    /\ app = "library_app"
    /\ \A c \in LibraryColls : ~Constructed(c)
    /\ LET ensured == [c \in Colls |->
                         IF c \in LibraryColls THEN ensure_json_file(file[c])
                         ELSE file[c]]
       IN /\ file' = ensured
          /\ cache' = [cache EXCEPT
               !["lib_students"] = LibStudentManager_load_data(ensured["lib_students"]),
               !["books"] = BookManager_load_data(ensured["books"]),
               !["loans"] = LoanManager_load_data(ensured["loans"])]
    /\ mgr' = [c \in Colls |->
                 IF c \in LibraryColls THEN "Constructed" ELSE mgr[c]]
    /\ last' = Call("build_container", "books", None, None, FALSE)
    /\ UNCHANGED app

\* BookManager(book_repository): the list starts empty, nothing is read
BookManager_init ==
    /\ app = "library_app"
    /\ ~Constructed("books")
    /\ cache' = [cache EXCEPT !["books"] = <<>>]
    /\ mgr' = [mgr EXCEPT !["books"] = "Constructed"]
    /\ last' = Call("__init__", "books", None, None, FALSE)
    /\ UNCHANGED <<app, file>>

LibStudentManager_init ==
    /\ app = "library_app"
    /\ ~Constructed("lib_students")
    /\ cache' = [cache EXCEPT !["lib_students"] =
                    LibStudentManager_load_data(file["lib_students"])]
    /\ mgr' = [mgr EXCEPT !["lib_students"] = "Constructed"]
    /\ last' = Call("__init__", "lib_students", None, None, FALSE)
    /\ UNCHANGED <<app, file>>

\* LoanManager(loan_repository, book_manager, student_manager)
LoanManager_init ==
    /\ app = "library_app"
    /\ Constructed("books")
    /\ Constructed("lib_students")
    /\ ~Constructed("loans")
    /\ cache' = [cache EXCEPT !["loans"] = LoanManager_load_data(file["loans"])]
    /\ mgr' = [mgr EXCEPT !["loans"] = "Constructed"]
    /\ last' = Call("__init__", "loans", None, None, FALSE)
    /\ UNCHANGED <<app, file>>

\* add_book(BookFactory.create_book(build_new_book_id()))
add_book ==
    /\ app = "library_app"
    /\ Constructed("books")
    /\ LET book == [id |-> BookManager_build_new_book_id(file["books"]),
                    title |-> "t", author |-> "a", year |-> "1949",
                    available |-> TRUE]
           r == BookManager_add_book(cache["books"], book)
       IN /\ book \in Books
          /\ file' = [file EXCEPT !["books"] = r.file]
          /\ cache' = [cache EXCEPT !["books"] = r.books]
          /\ last' = Call("add_book", "books", book, None, FALSE)
    /\ UNCHANGED <<app, mgr>>

deactivate_book ==
    /\ app = "library_app"
    /\ Constructed("books")
    /\ \E id \in BookIds :
         LET r == BookManager_deactivate_book(file["books"], cache["books"], id)
         IN /\ file' = [file EXCEPT !["books"] = r.file]
            /\ cache' = [cache EXCEPT !["books"] = r.books]
            /\ last' = Call("deactivate_book", "books", id, None, r.raised)
    /\ UNCHANGED <<app, mgr>>

\* add_student(StudentFactory.create_student(build_new_student_id()))
lib_add_student ==
    /\ app = "library_app"
    /\ Constructed("lib_students")
    /\ LET student == [student_id |-> LibStudentManager_build_new_student_id(
                                          file["lib_students"]),
                       name |-> "n", last_name |-> "l", phone_number |-> "p",
                       email |-> "e"]
           r == LibStudentManager_add_student(cache["lib_students"], student)
       IN /\ student \in LibStudents
          /\ file' = [file EXCEPT !["lib_students"] = r.file]
          /\ cache' = [cache EXCEPT !["lib_students"] = r.students]
          /\ last' = Call("add_student", "lib_students", student, None, FALSE)
    /\ UNCHANGED <<app, mgr>>

create_loan ==
    /\ app = "library_app"
    /\ Constructed("loans")
    /\ LoanManager_build_loan_id(cache["loans"]) \in LoanIds
    /\ \E student_id \in LibStudentIds, book_id \in BookIds :
         LET r == LoanManager_create_loan(file, cache, student_id, book_id)
         IN /\ file' = r.file
            /\ cache' = r.cache
            /\ last' = Call("create_loan", "loans",
                            [student_id |-> student_id, book_id |-> book_id],
                            None, r.raised)
    /\ UNCHANGED <<app, mgr>>

(***************************** students_app: managers ***********************)
\* get_last_student_id: "000" without a file; data[-1] of an empty array is
\* an IndexError
StudentRepository_get_last_student_id(f) ==
    IF ~f.exists THEN Ok(<<"0", "0", "0">>)
    ELSE IF Len(f.data) = 0 THEN Raise
    ELSE Ok(f.data[Len(f.data)].id)

CourseRepository_get_last_course_id(f) ==
    IF ~f.exists THEN Ok(<<"0", "0", "0">>)
    ELSE IF Len(f.data) = 0 THEN Ok(<<"0", "0", "0">>)
    ELSE Ok(f.data[Len(f.data)].id)

StudentManager_load_data(f) == StudentRepository_get_students(f)

StudentManager_save_data(students) ==
    LET f2 == StudentRepository_save_students(students)
    IN [file |-> f2, students |-> StudentManager_load_data(f2)]

StudentManager_add_student(students, student) ==
    StudentManager_save_data(Append(students, student))

StudentManager_get_student_by_id(f, id) ==
    StudentRepository_get_student_by_id(f, id)

StudentManager_build_new_student_id(f) ==
    LET last_student_id == StudentRepository_get_last_student_id(f)
    IN IF last_student_id.raised THEN Raise
       ELSE Ok(zfill(str(Decimal(replace(last_student_id.val,
                                         STUDENT_ID_PREFIX)) + 1), 3))

CourseManager_load_data(f) == CourseRepository_get_courses(f)

CourseManager_save_data(courses) ==
    LET f2 == CourseRepository_save_courses(courses)
    IN [file |-> f2, courses |-> CourseManager_load_data(f2)]

CourseManager_add_course(courses, course) ==
    CourseManager_save_data(Append(courses, course))

CourseManager_get_course(f, id) == CourseRepository_get_course_by_id(f, id)

CourseManager_build_new_course_id(f) ==
    LET last_student_id == CourseRepository_get_last_course_id(f)
    IN Ok(zfill(str(Decimal(replace(last_student_id.val,
                                    COURSE_ID_PREFIX)) + 1), 3))

\* a validate_new_student that lets one more in
Course_validate_new_student_one_over(course, current_enrollment_amounts) ==
    current_enrollment_amounts > course.max_students

\* Course.validate_new_student: TRUE when the course is full
Course_validate_new_student(course, current_enrollment_amounts) ==
    current_enrollment_amounts >= course.max_students

EnrollmentValidator_validate_course_available(course, course_enrollments) ==
    Course_validate_new_student(course, Len(course_enrollments))

\* a duplicate test that compares enrollments by identity: never equal
EnrollmentValidator_validate_by_identity(student, course, course_enrollments) ==
    FALSE

EnrollmentValidator_validate_student_has_not_enrolled_to_course(student, course, course_enrollments) ==
    \E i \in 1..Len(course_enrollments) :
        course_enrollments[i] = [student_id |-> student.student_id,
                                 course_id |-> course.course_id]

EnrollmentManager_load_data(f) == EnrollmentRepository_get_enrollments(f)

EnrollmentManager_save_data(enrollments) ==
    LET f2 == EnrollmentRepository_save_enrollments(enrollments)
    IN [file |-> f2, enrollments |-> EnrollmentManager_load_data(f2)]

\* enroll_student: Ok(Some(enrollment)), Ok(None) on a refusal, Raise
EnrollmentManager_enroll_student(files, enrollments, student_id, course_id) ==
    LET student == StudentManager_get_student_by_id(files["students"],
                                                    student_id)
        course == CourseManager_get_course(files["courses"], course_id)
    IN IF student.raised \/ course.raised THEN Raise
       ELSE IF course.val = None \/ student.val = None THEN Ok(None)
       ELSE IF EnrollmentValidator_validate_student_has_not_enrolled_to_course(
                  student.val[1], course.val[1], enrollments)
       THEN Ok(None)
       ELSE IF EnrollmentValidator_validate_course_available(course.val[1],
                  EnrollmentRepository_get_enrollments_by_course_id(
                      files["enrollments"], course_id))
       THEN Ok(None)
       ELSE Ok(Some([student_id |-> student_id, course_id |-> course_id]))

EnrollmentManager_save_enrollment(enrollments, enrollment) ==
    EnrollmentManager_save_data(Append(enrollments, enrollment))

(***************************** files with a malformed record ****************)
\* a stored record that lacks key k
Without(d, k) == [x \in DOMAIN d \ {k} |-> d[x]]

\* the repositories whose parser is among the sources
ParsedColls == {"products", "changes", "books", "loans", "courses",
                "enrollments"}

\* the keys each from_dict reads as data[key]
KeysRead(c) ==
    CASE c = "products" ->
           {"id", "name", "category", "inStock", "price", "description",
            "active"}
      [] c = "changes" ->
           {"id", "type", "date", "stock", "reason", "user", "product_id"}
      [] c = "books" -> {}
      [] c = "loans" -> {"id", "student_id", "book_id", "date", "return_date"}
      [] c = "lib_students" ->
           {"id", "name", "last_name", "phone_number", "email"}
      [] c = "courses" -> {"id", "description", "max_students"}
      [] c = "enrollments" -> {"student_id", "course_id"}

\* Python's None as a field value
PyNone == "None"
\* dict.get(key)
dict_get(d, k) == IF k \in DOMAIN d THEN d[k] ELSE PyNone

\* BookParser.from_dic_to_book reads every key with book_dict.get
BookParser_from_dic_to_book_get(book_dict) ==
    [id |-> dict_get(book_dict, "id"),
     title |-> dict_get(book_dict, "title"),
     author |-> dict_get(book_dict, "author"),
     year |-> dict_get(book_dict, "year"),
     available |-> dict_get(book_dict, "available")]

\* a from_dict on a record that may lack a key: data[key] raises KeyError
from_dict(c, d) ==
    IF ~(KeysRead(c) \subseteq DOMAIN d) THEN Raise
    ELSE CASE c = "products" -> Ok(ProductParser_from_dict_to_product(d))
           [] c = "changes" ->
                Ok(ProductChangesParser_from_dict_to_product_changes(d))
           [] c = "books" -> Ok(BookParser_from_dic_to_book_get(d))
           [] c = "loans" -> Ok(LoanParser_dict_to_loan(d))
           [] c = "lib_students" -> Ok(StudentParser_from_dict_to_student(d))
           [] c = "courses" -> Ok(CourseParser_from_dict_to_course(d))
           [] c = "enrollments" -> Ok(EnrollmentParser_dict_to_enrollment(d))

\* get_all / get_books / ... over an existing file: the list comprehension
\* ends at the first record whose parse raises
get_all_parsing(c, f) ==
    LET parsed == [i \in 1..Len(f.data) |-> from_dict(c, f.data[i])]
    IN IF \E i \in 1..Len(parsed) : parsed[i].raised THEN Raise
       ELSE Ok([i \in 1..Len(parsed) |-> parsed[i].val])

\* a file that an earlier run wrote and in which one record lost one key
MalformedInit ==
    /\ app \in ParsedColls
    /\ \E xs \in SeqsUpTo(Entities(app), MaxLen) :
         \E i \in 1..Len(xs) :
           \E k \in DOMAIN save_all(app, xs).data[i] :
             file = [c \in Colls |->
                       IF c = app
                       THEN FileOf([save_all(app, xs).data EXCEPT
                                      ![i] = Without(@, k)])
                       ELSE NoFile]
    /\ cache = [c \in Colls |-> <<>>]
    /\ mgr = [c \in Colls |-> "Uninitialized"]
    /\ last = Call("init", "", None, None, FALSE)

RepoGetAllMalformed ==
    /\ app \in ParsedColls
    /\ last.op = "init"
    /\ LET r == get_all_parsing(app, file[app])
       IN last' = Call("get_all", app, None, r.val, r.raised)
    /\ UNCHANGED <<app, file, cache, mgr>>

MalformedSpec == MalformedInit /\ [][RepoGetAllMalformed]_vars

(***************************** the parsers, there and back ******************)
\* the parsers among the sources
RoundTripColls ==
    {"products", "changes", "books", "loans", "lib_students", "courses",
     "enrollments"}

to_dict(c, e) ==
    CASE c = "products" -> ProductParser_from_product_to_dict(e)
      [] c = "changes" -> ProductChangesParser_from_product_changes_to_dict(e)
      [] c = "books" -> BookParser_from_book_to_dict(e)
      [] c = "loans" -> LoanParser_loan_to_dict(e)
      [] c = "lib_students" -> StudentParser_from_student_to_dict(e)
      [] c = "courses" -> CourseParser_from_course_to_dict(e)
      [] c = "enrollments" -> EnrollmentParser_enrollment_to_dict(e)

\* the entities handed to the parsers: more prices and instants than the
\* repositories store
RoundTripPrices == {0, 9, 15, 100}
Instants == [day : {1, 12}, us : {0, 5}]
RoundTripEntities(c) ==
    CASE c = "products" ->
           {[p EXCEPT !.price = x] : p \in Products, x \in RoundTripPrices}
      [] c = "changes" ->
           {[ch EXCEPT !.date = d] : ch \in ProductChangesSet, d \in Instants}
      [] c = "loans" ->
           {[l EXCEPT !.date = d, !.return_date = ReturnDate(d)] :
               l \in Loans, d \in Instants}
      [] OTHER -> Entities(c)

ParserRoundTrip ==
    /\ app \in RoundTripColls
    /\ last.op = "init"
    /\ \E e \in RoundTripEntities(app) :
         LET record == to_dict(app, e)
             back == from_dict(app, record)
         IN last' = Call("round_trip", app, e,
                         [record |-> record, entity |-> back.val], back.raised)
    /\ UNCHANGED <<app, file, cache, mgr>>

(***************************** the next identifier ***************************)
\* what a manager constructed over file f answers when asked for a new id
NewIdColls == {"changes", "books", "loans", "students", "courses"}

build_new_id(c, f) ==
    CASE c = "changes" -> Ok(ProductChangesManager_get_last_id(f).ret)
      [] c = "books" -> Ok(BookManager_build_new_book_id(f))
      [] c = "loans" -> Ok(LoanManager_build_loan_id(LoanManager_load_data(f)))
      [] c = "students" -> StudentManager_build_new_student_id(f)
      [] c = "courses" -> CourseManager_build_new_course_id(f)

BuildNewId ==
    /\ app \in NewIdColls
    /\ LET r == build_new_id(app, file[app])
       IN last' = Call("build_new_id", app, None, r.val, r.raised)
    /\ UNCHANGED <<app, file, cache, mgr>>

(***************************** students_app: the program ********************)
StudentsColls == {"students", "courses", "enrollments"}

\* ManagerInjectors: the three managers constructed, no file created
ManagerInjectors ==
    /\ app = "students_app"
    /\ \A c \in StudentsColls : ~Constructed(c)
    /\ cache' = [cache EXCEPT
         !["students"] = StudentManager_load_data(file["students"]),
         !["courses"] = CourseManager_load_data(file["courses"]),
         !["enrollments"] = EnrollmentManager_load_data(file["enrollments"])]
    /\ mgr' = [c \in Colls |->
                 IF c \in StudentsColls THEN "Constructed" ELSE mgr[c]]
    /\ last' = Call("ManagerInjectors", "students", None, None, FALSE)
    /\ UNCHANGED <<app, file>>

\* Main.add_student
add_student ==
    /\ app = "students_app"
    /\ Constructed("students")
    /\ LET id == StudentManager_build_new_student_id(file["students"])
       IN IF id.raised
          THEN /\ last' = Call("add_student", "students", None, None, TRUE)
               /\ UNCHANGED <<file, cache>>
          ELSE LET student == [student_id |-> STUDENT_ID_PREFIX \o id.val,
                               name |-> "n", last_name |-> "l",
                               phone_number |-> "p", email |-> "e",
                               address |-> "a"]
                   r == StudentManager_add_student(cache["students"], student)
               IN /\ student \in AppStudents
                  /\ file' = [file EXCEPT !["students"] = r.file]
                  /\ cache' = [cache EXCEPT !["students"] = r.students]
                  /\ last' = Call("add_student", "students", student, None,
                                  FALSE)
    /\ UNCHANGED <<app, mgr>>

\* Main.add_course
add_course ==
    /\ app = "students_app"
    /\ Constructed("courses")
    /\ \E max_students \in {1, 2} :
         LET id == CourseManager_build_new_course_id(file["courses"])
             course == [course_id |-> COURSE_ID_PREFIX \o id.val,
                        description |-> "d", max_students |-> max_students]
             r == CourseManager_add_course(cache["courses"], course)
         IN /\ course \in Courses
            /\ file' = [file EXCEPT !["courses"] = r.file]
            /\ cache' = [cache EXCEPT !["courses"] = r.courses]
            /\ last' = Call("add_course", "courses", course, None, FALSE)
    /\ UNCHANGED <<app, mgr>>

\* Main.add_enrollment: enroll_student, then save_enrollment of what it
\* returned
add_enrollment ==
    /\ app = "students_app"
    /\ Constructed("enrollments")
    /\ Len(cache["enrollments"]) < Cardinality(CourseIds)
    /\ \E student_id \in AppStudentIds, course_id \in CourseIds :
         LET enrollment == EnrollmentManager_enroll_student(file,
                               cache["enrollments"], student_id, course_id)
             arg == [student_id |-> student_id, course_id |-> course_id]
         IN IF enrollment.raised \/ enrollment.val = None
            THEN /\ last' = Call("add_enrollment", "enrollments", arg,
                                 None, enrollment.raised)
                 /\ UNCHANGED <<file, cache>>
            ELSE LET r == EnrollmentManager_save_enrollment(
                             cache["enrollments"], enrollment.val[1])
                 IN /\ file' = [file EXCEPT !["enrollments"] = r.file]
                    /\ cache' = [cache EXCEPT
                                   !["enrollments"] = r.enrollments]
                    /\ last' = Call("add_enrollment", "enrollments", arg,
                                    enrollment.val, FALSE)
    /\ UNCHANGED <<app, mgr>>

Next ==
    \/ RepoSaveAll
    \/ RepoGetAll
    \/ RepoGetById
    \/ RepoUpdate
    \/ RepoDelete
    \/ BuildNewId
    \/ ParserRoundTrip
    \/ build_container_assets
    \/ ProductManager_init
    \/ ProductChangesManager_init
    \/ Exit
    \/ create_product
    \/ get_product_by_id
    \/ update_product
    \/ delete_product
    \/ delete_product_stock
    \/ add_product_stock
    \/ create_product_change
    \/ build_container_library
    \/ BookManager_init
    \/ LibStudentManager_init
    \/ LoanManager_init
    \/ add_book
    \/ deactivate_book
    \/ lib_add_student
    \/ create_loan
    \/ ManagerInjectors
    \/ add_student
    \/ add_course
    \/ add_enrollment

Spec == Init /\ [][Next]_vars

\* assets_app's main: build_container, then Menu(...).menu(user) until option 10
MenuInit ==
    /\ app = "assets_app/menu"
    /\ file = [c \in Colls |-> NoFile]
    /\ cache = [c \in Colls |-> <<>>]
    /\ mgr = [c \in Colls |-> "Uninitialized"]
    /\ last = Call("init", "", None, None, FALSE)

MenuNext ==
    \/ build_container_assets
    \/ option_1_create_product
    \/ option_4_reduce_product_stock
    \/ option_5_get_more_stock_for_product
    \/ option_6_delete_product
    \/ option_8_show_product_changes_by_product
    \/ Exit

MenuSpec == MenuInit /\ [][MenuNext]_vars

(***************************** repositories: claims *************************)
\* the first record of xs whose identifier is id, or None: a linear scan
Scan(c, xs, id) ==
    LET k == FirstIndex(xs, IdKey(c), id)
    IN IF k = 0 THEN None ELSE Some(xs[k])

\* C3: after save_all(xs) returns, get_all() returns xs: same length, same
\* ids in the same order, same field values
C3_SaveThenLoad ==
    last.op = "save_all" => get_all(last.coll, file[last.coll]) = last.arg

C3_Witness ==
    /\ last.op = "save_all"
    /\ last.coll = "products"
    /\ Len(last.arg) = 2
    /\ last.arg[1].id = last.arg[2].id
    /\ last.arg[1] # last.arg[2]

\* C6: get_by_id never raises and returns what a linear scan of get_all()
\* returns, in every storage state, the missing file included
C6_LookupIsScan ==
    last.op = "get_by_id" =>
        /\ ~last.raised
        /\ last.ret = Scan(last.coll, get_all(last.coll, file[last.coll]),
                           last.arg)

\* C7: with no backing file, get_all() returns the empty sequence, raises
\* nothing and leaves the file missing
C7_MissingFileIsEmpty ==
    [][(last'.op = "get_all" /\ ~file[last'.coll].exists) =>
          /\ last'.ret = <<>>
          /\ ~last'.raised
          /\ ~file'[last'.coll].exists]_vars

C7_Witness ==
    /\ last.op = "get_all"
    /\ last.coll = "enrollments"
    /\ ~file["enrollments"].exists

\* C8: after update(e2) with e2's id stored, get_by_id(e2.id) returns e2; only
\* the first record with that id is replaced, the others and the order stay
C8_UpdateThenGet ==
    [][LET c == last'.coll
           e2 == last'.arg
           before == get_all(c, file[c])
           after == get_all(c, file'[c])
           k == FirstIndex(before, IdKey(c), e2[IdKey(c)])
       IN (last'.op = "update" /\ k # 0) =>
             /\ get_by_id(c, file'[c], e2[IdKey(c)]) = Ok(Some(e2))
             /\ Len(after) = Len(before)
             /\ after[k] = e2
             /\ \A i \in 1..Len(before) : i # k => after[i] = before[i]]_vars

C8_Witness ==
    /\ last.op = "update"
    /\ last.coll = "products"
    /\ LET products == get_all("products", file["products"])
       IN /\ Len(products) = 2
          /\ products[1] = last.arg
          /\ products[2].id = last.arg.id
          /\ products[2] # last.arg

CacheIsFile(c) == cache[c] = get_all(c, file[c])

\* the calls that reload their list on every normal return
AlwaysReloading ==
    {"create_product", "update_product", "add_product_stock",
     "create_product_change", "add_book", "add_student", "add_course"}

C2_ConstructorLoads ==
    /\ last.op = "__init__" => CacheIsFile(last.coll)
    /\ last.op = "ManagerInjectors" => \A c \in StudentsColls : CacheIsFile(c)

C5_AddStockPersists ==
    [][last'.op = "add_product_stock" =>
          LET id == last'.arg.product.id
              before == Scan("products",
                             get_all("products", file["products"]), id)
              after == Scan("products",
                            get_all("products", file'["products"]), id)
              got == ProductManager_get_product_by_id(file'["products"], id)
          IN /\ ~last'.raised
             /\ before # None
             /\ after # None
             /\ after[1].in_stock = before[1].in_stock + last'.arg.amount
             /\ ~got.raised
             /\ got.val # None
             /\ got.val[1].in_stock = before[1].in_stock + last'.arg.amount
      ]_vars

C5_Witness ==
    /\ last.op = "add_product_stock"
    /\ last.arg.amount = 1
    /\ last.arg.product.in_stock = 1
    /\ Fetched(last.arg.product.id) # None
    /\ Fetched(last.arg.product.id)[1].in_stock = 2

\* C10: create_loan for an existing student and a book id whose stored book is
\* missing or unavailable adds no loan to the loan cache or the loan file and
\* leaves the stored books as they were
C10_NoLoanForUnavailableBook ==
    [][LET student == LibStudentRepository_get_student_by_id(
                          file["lib_students"], last'.arg.student_id)
           book == Scan("books", get_all("books", file["books"]),
                        last'.arg.book_id)
       IN (/\ last'.op = "create_loan"
           /\ student.val # None
           /\ (book = None \/ ~book[1].available)) =>
             /\ cache'["loans"] = cache["loans"]
             /\ file'["loans"] = file["loans"]
             /\ file'["books"] = file["books"]]_vars

C10_Witness ==
    /\ last.op = "create_loan"
    /\ ~last.raised
    /\ LibStudentRepository_get_student_by_id(
           file["lib_students"], last.arg.student_id).val # None
    /\ LET book == Scan("books", get_all("books", file["books"]),
                        last.arg.book_id)
       IN book # None /\ ~book[1].available
    /\ \A i \in 1..Len(cache["loans"]) :
           cache["loans"][i].book_id # last.arg.book_id

\* C11: starting from an empty product file, after any sequence of
\* create_product, update_product, delete_product and stock adjustments no two
\* stored product records have the same SKU
C11_UniqueSKU ==
    app = "assets_app/products" =>
        LET stored == get_all("products", file["products"])
        IN \A i, j \in 1..Len(stored) :
               stored[i].id = stored[j].id => i = j

(***************************** assets_app: product filter *******************)
\* the text fields of the model are one-character strings
Chars(text) == <<text>>
Lower(ch) ==
    CASE ch = "A" -> "a" [] ch = "B" -> "b" [] ch = "N" -> "n" [] OTHER -> ch
casefold(s) == [i \in 1..Len(s) |-> Lower(s[i])]
\* q in v
Contains(v, q) ==
    \E i \in 0..(Len(v) - Len(q)) : SubSeq(v, i + 1, i + Len(q)) = q

norm(s, case_insensitive) == IF case_insensitive THEN casefold(s) ELSE s

match_text(value, query, partial_match, case_insensitive) ==
    IF query = None THEN TRUE
    ELSE LET v == norm(value, case_insensitive)
             q == norm(query[1], case_insensitive)
         IN IF partial_match THEN Contains(v, q) ELSE v = q

match_bool(value, query) == IF query = None THEN TRUE ELSE value = query[1]

match_range_num(value, lo, hi) ==
    /\ lo # None => value >= lo[1]
    /\ hi # None => value <= hi[1]

\* a filter that stops looking at the stock once the price range is given
ProductManager_get_products_by_filter_price_first(products, q) ==
    LET Keep(p) ==
          /\ q.id # None => p.id = q.id[1]
          /\ match_text(Chars(p.id), q.id_contains, q.partial_match,
                        q.case_insensitive)
          /\ match_text(Chars(p.category), q.category, q.partial_match,
                        q.case_insensitive)
          /\ match_text(Chars(p.name), q.name, q.partial_match,
                        q.case_insensitive)
          /\ match_text(Chars(p.description), q.description, q.partial_match,
                        q.case_insensitive)
          /\ match_bool(p.active, q.active)
          /\ match_range_num(p.price, q.min_price, q.max_price)
          /\ \/ q.min_price # None
             \/ q.max_price # None
             \/ match_range_num(p.in_stock, q.min_stock, q.max_stock)
    IN SelectSeq(products, Keep)

ProductManager_get_products_by_filter(products, q) ==
    LET Keep(p) ==
          /\ q.id # None => p.id = q.id[1]
          /\ match_text(Chars(p.id), q.id_contains, q.partial_match,
                        q.case_insensitive)
          /\ match_text(Chars(p.category), q.category, q.partial_match,
                        q.case_insensitive)
          /\ match_text(Chars(p.name), q.name, q.partial_match,
                        q.case_insensitive)
          /\ match_text(Chars(p.description), q.description, q.partial_match,
                        q.case_insensitive)
          /\ match_bool(p.active, q.active)
          /\ match_range_num(p.price, q.min_price, q.max_price)
          /\ match_range_num(p.in_stock, q.min_stock, q.max_stock)
    IN SelectSeq(products, Keep)

\* the keyword arguments that select, and the call with none of them
FilterFields ==
    {"category", "name", "description", "active", "min_price", "max_price",
     "min_stock", "max_stock", "id", "id_contains"}
NoFilter ==
    [category |-> None, name |-> None, description |-> None, active |-> None,
     min_price |-> None, max_price |-> None, min_stock |-> None,
     max_stock |-> None, id |-> None, id_contains |-> None,
     partial_match |-> TRUE, case_insensitive |-> TRUE]

\* the arguments tried: up to two of these on top of the defaults
FilterSettings ==
    {<<"category", Some(<<"x">>)>>, <<"name", Some(<<"N">>)>>,
     <<"description", Some(<<>>)>>, <<"active", Some(TRUE)>>,
     <<"active", Some(FALSE)>>, <<"min_price", Some(15)>>,
     <<"max_price", Some(15)>>, <<"max_price", Some(14)>>,
     <<"min_stock", Some(MaxStock)>>, <<"max_stock", Some(0)>>,
     <<"max_stock", Some(MaxStock - 1)>>, <<"id", Some("A")>>,
     <<"id_contains", Some(<<"b">>)>>, <<"partial_match", FALSE>>,
     <<"case_insensitive", FALSE>>}
Filters ==
    {[[NoFilter EXCEPT ![s[1]] = s[2]] EXCEPT ![t[1]] = t[2]] :
        s, t \in FilterSettings}

\* a ProductManager over a file that earlier runs wrote, of as many records
\* as there are SKUs
FilterInit ==
    /\ app = "assets_app/filter"
    /\ \E products \in SeqsUpTo(SomeProducts, Cardinality(SKUs)) :
         /\ file = [c \in Colls |->
                      IF c = "products" THEN save_all("products", products)
                      ELSE NoFile]
         /\ cache = [c \in Colls |->
                       IF c = "products"
                       THEN ProductManager_load_data(
                                save_all("products", products))
                       ELSE <<>>]
    /\ mgr = [c \in Colls |->
                IF c = "products" THEN "Constructed" ELSE "Uninitialized"]
    /\ last = Call("__init__", "products", None, None, FALSE)

\* the call reads the cache and changes nothing: a second call in the same
\* run finds what the first found, so one call per run is explored
get_products_by_filter ==
    /\ app = "assets_app/filter"
    /\ Constructed("products")
    /\ last.op = "__init__"
    /\ \E q \in Filters :
         last' = Call("get_products_by_filter", "products", q,
                      ProductManager_get_products_by_filter(
                          cache["products"], q), FALSE)
    /\ UNCHANGED <<app, file, cache, mgr>>

FilterSpec == FilterInit /\ [][get_products_by_filter]_vars

(***************************** Menu: claims *********************************)
\* the Menu operations that ask for a product SKU
MenuSkuOps ==
    {"Menu.reduce_product_stock", "Menu.get_more_stock_for_product",
     "Menu.delete_product", "Menu.show_product_changes_by_product"}

\* the SKU matches no stored product, or an inactive one
Unavailable(id) == Fetched(id) = None \/ ~Fetched(id)[1].active

\* C12: every Menu operation that takes a SKU (reduce stock, increase stock,
\* delete product, show history by product), given a SKU that matches no
\* stored product or an inactive one, reports that the product does not
\* exist, raises no exception and leaves the product collection and the
\* change history unchanged
C12_UnavailableIsReported ==
    [][(last'.op \in MenuSkuOps /\ Unavailable(last'.arg.id)) =>
          /\ last'.ret.reported
          /\ ~last'.raised
          /\ file'["products"] = file["products"]
          /\ file'["changes"] = file["changes"]]_vars

(***************************** product filter: claims ***********************)
\* C13: get_products_by_filter returns exactly the products of the cache that
\* are in the result of every supplied predicate applied alone, in cache
\* order; with no predicate it returns the whole cache; the ranges on price
\* and stock include both bounds; and neither the cache nor the file changes
C13_FilterIsConjunction ==
    [][last'.op = "get_products_by_filter" =>
          LET q == last'.arg
              products == cache["products"]
              Flags == [NoFilter EXCEPT
                          !.partial_match = q.partial_match,
                          !.case_insensitive = q.case_insensitive]
              Alone(f) == ProductManager_get_products_by_filter(products,
                              [Flags EXCEPT ![f] = q[f]])
              InAll(p) == \A f \in FilterFields :
                              \E i \in 1..Len(Alone(f)) : Alone(f)[i] = p
              InRanges(p) ==
                  /\ q.min_price # None => p.price >= q.min_price[1]
                  /\ q.max_price # None => p.price <= q.max_price[1]
                  /\ q.min_stock # None => p.in_stock >= q.min_stock[1]
                  /\ q.max_stock # None => p.in_stock <= q.max_stock[1]
              RangesOnly == \A f \in FilterFields :
                  q[f] # None =>
                      f \in {"min_price", "max_price", "min_stock", "max_stock"}
          IN /\ last'.ret = SelectSeq(products, InAll)
             /\ (\A f \in FilterFields : q[f] = None) => last'.ret = products
             /\ RangesOnly => last'.ret = SelectSeq(products, InRanges)
             /\ cache' = cache
             /\ file' = file]_vars

\* two predicates that each keep one product of two and together keep none,
\* and a stock equal to the bound of its range kept
C13_Witness ==
    /\ last.op = "get_products_by_filter"
    /\ Len(cache["products"]) = 2
    /\ last.arg.active = Some(TRUE)
    /\ last.arg.min_stock = Some(MaxStock)
    /\ last.ret = <<>>
    /\ cache["products"][1].active
    /\ cache["products"][1].in_stock = 0
    /\ ~cache["products"][2].active
    /\ cache["products"][2].in_stock = MaxStock

NextNumericId(stored) ==
    IF Len(stored) = 0 THEN 1 ELSE stored[Len(stored)].id + 1

\* C15: ProductChangesManager.get_last_id, BookManager.build_new_book_id and
\* LoanManager.build_loan_id return 1 when the collection holds no records
\* (file missing or empty array) and otherwise the id of the last stored
\* record plus 1; the record create_product_change appended has that id, and
\* the loans create_loan stored are numbered 1, 2, ...
C15_NumericNextId ==
    /\ (last.op = "build_new_id"
        /\ last.coll \in {"changes", "books", "loans"}) =>
          /\ ~last.raised
          /\ last.ret = NextNumericId(get_all(last.coll, file[last.coll]))
    /\ last.op = "create_product_change" =>
          LET stored == get_all(last.coll, file[last.coll])
          IN last.arg.id = NextNumericId(SubSeq(stored, 1, Len(stored) - 1))
    /\ last.op = "create_loan" =>
          LET loans == get_all("loans", file["loans"])
          IN \A i \in 1..Len(loans) :
                 loans[i].id = NextNumericId(SubSeq(loans, 1, i - 1))

\* the last stored id is not the largest: the new id is still last + 1
C15_Witness ==
    /\ last.op = "build_new_id"
    /\ last.coll = "books"
    /\ Len(get_all("books", file["books"])) = 2
    /\ get_all("books", file["books"])[1].id = 2
    /\ get_all("books", file["books"])[2].id = 1
    /\ last.ret = 2
\* a stored id without its one-token prefix, as a number
Numeral(id) == Decimal(SubSeq(id, 2, Len(id)))

\* C16: build_new_student_id and build_new_course_id strip the prefix from the
\* last stored id, add 1 and zero-pad to three digits; when the collection
\* holds no records (file missing or empty array) they return "001"; they
\* never raise
C16_PrefixedNextId ==
    (last.op = "build_new_id" /\ last.coll \in {"students", "courses"}) =>
        LET stored == file[last.coll].data
        IN /\ ~last.raised
           /\ last.ret =
                IF Len(stored) = 0 THEN <<"0", "0", "1">>
                ELSE zfill(str(Numeral(stored[Len(stored)].id) + 1), 3)
(***************************** malformed files: claims **********************)
\* some stored record lacks a key that the collection's records have
Malformed(c) ==
    \E i \in 1..Len(file[c].data) :
        DOMAIN file[c].data[i] #
            DOMAIN save_all(c, <<CHOOSE e \in Entities(c) : TRUE>>).data[1]

\* C17: if any record in the file lacks a required key, get_all (get_books
\* included) fails with an error and returns no entities: no partial list, no
\* entity with the missing field defaulted
C17_MalformedIsFatal ==
    (last.op = "get_all" /\ Malformed(last.coll)) =>
        /\ last.raised
        /\ last.ret = None
(***************************** parsers: claims ******************************)
\* C18: for every valid entity e (Product, ProductChanges, Book, Loan,
\* Student, Course, Enrollment) from_record(to_record(e)) has the same id and
\* the same value in every field as e; the record holds the stock under
\* inStock and the entity under in_stock
C18_RoundTrip ==
    last.op = "round_trip" =>
        /\ ~last.raised
        /\ last.ret.entity = last.arg
        /\ last.coll = "products" =>
              /\ "inStock" \in DOMAIN last.ret.record
              /\ "in_stock" \notin DOMAIN last.ret.record
              /\ last.ret.record.inStock = last.arg.in_stock
              /\ last.ret.entity.in_stock = last.arg.in_stock

\* a change record whose instant has microseconds and a three-digit price
C18_Witness ==
    /\ last.op = "round_trip"
    /\ \/ /\ last.coll = "changes"
          /\ last.arg.date.us = 5
          /\ last.ret.entity.date.us = 5
       \/ /\ last.coll = "products"
          /\ last.arg.price = 100
          /\ last.ret.entity.price = 100
          /\ last.arg.in_stock = MaxStock
(***************************** audit trail: claims **************************)
\* C19: every Menu stock reduction or increase that succeeds appends exactly
\* one change record, whose product_id is the product's id and whose user and
\* reason are those supplied; a rejected reduction (insufficient stock) and
\* an operation on a missing or inactive product append none
C19_AuditTrail ==
    [][last'.op \in {"Menu.reduce_product_stock",
                     "Menu.get_more_stock_for_product"} =>
          LET id == last'.arg.id
              before == get_all("changes", file["changes"])
              after == get_all("changes", file'["changes"])
              succeeds ==
                  /\ ~Unavailable(id)
                  /\ last'.op = "Menu.reduce_product_stock" =>
                         Fetched(id)[1].in_stock >= last'.arg.amount
          IN IF succeeds
             THEN /\ Len(after) = Len(before) + 1
                  /\ SubSeq(after, 1, Len(before)) = before
                  /\ after[Len(after)].product_id = id
                  /\ after[Len(after)].user = MenuUser
                  /\ after[Len(after)].reason = last'.arg.reason
             ELSE after = before]_vars

\* a reduction that succeeded and was logged after the product's creation
C19_Witness ==
    /\ last.op = "Menu.reduce_product_stock"
    /\ last.arg.amount = 1
    /\ ~last.ret.reported
    /\ Len(cache["changes"]) = 2
    /\ cache["changes"][1].type = "Producto Creado"
    /\ cache["changes"][2].type = "STOCK REDUCIDO"
    /\ cache["changes"][2].stock = 1
    /\ cache["changes"][2].product_id = last.arg.id
(***************************** enrollments: claims **************************)
\* the stored enrollments of a course
EnrolledIn(f, course_id) ==
    SelectSeq(get_all("enrollments", f), LAMBDA e : e.course_id = course_id)

\* no stored course has more stored enrollments than its max_students
WithinCapacity(files) ==
    LET courses == get_all("courses", files["courses"])
    IN \A i \in 1..Len(courses) :
           Len(EnrolledIn(files["enrollments"], courses[i].course_id))
               <= courses[i].max_students

\* C20: after any sequence of add_enrollment operations, for every course the
\* number of stored enrollments with its course_id never exceeds its
\* max_students; an attempt on a course that already has max_students
\* enrollments returns None and stores nothing
C20_EnrollmentCapacity ==
    [][/\ WithinCapacity(file')
       /\ last'.op = "add_enrollment" =>
             LET course == Scan("courses",
                                get_all("courses", file["courses"]),
                                last'.arg.course_id)
                 enrolled == EnrolledIn(file["enrollments"],
                                        last'.arg.course_id)
             IN (course # None /\ Len(enrolled) >= course[1].max_students) =>
                    /\ ~last'.raised
                    /\ last'.ret = None
                    /\ file' = file
                    /\ cache' = cache]_vars

\* a student turned away from a full course that another student is in
C20_Witness ==
    /\ last.op = "add_enrollment"
    /\ last.ret = None
    /\ ~last.raised
    /\ Len(cache["enrollments"]) = 1
    /\ cache["enrollments"][1].course_id = last.arg.course_id
    /\ cache["enrollments"][1].student_id # last.arg.student_id
    /\ StudentManager_get_student_by_id(
           file["students"], last.arg.student_id).val # None
    /\ \E i \in 1..Len(cache["courses"]) :
           /\ cache["courses"][i].course_id = last.arg.course_id
           /\ cache["courses"][i].max_students = 1
\* no (student_id, course_id) pair is stored twice
NoDuplicateEnrollment(f) ==
    LET stored == get_all("enrollments", f)
    IN \A i, j \in 1..Len(stored) : stored[i] = stored[j] => i = j

\* C21: after any sequence of add_enrollment operations no (student_id,
\* course_id) pair occurs more than once in the stored enrollments;
\* enroll_student for a pair already stored returns None; and enroll_student
\* itself changes neither cache nor file: what changes is the one enrollment
\* save_enrollment appends when enroll_student returned it
C21_NoDuplicateEnrollment ==
    [][app = "students_app" =>
          /\ NoDuplicateEnrollment(file'["enrollments"])
          /\ last'.op = "add_enrollment" =>
                LET stored == get_all("enrollments", file["enrollments"])
                    pair == [student_id |-> last'.arg.student_id,
                             course_id |-> last'.arg.course_id]
                IN /\ (\E i \in 1..Len(stored) : stored[i] = pair) =>
                          (~last'.raised /\ last'.ret = None)
                   /\ last'.ret = None => (file' = file /\ cache' = cache)
                   /\ last'.ret # None =>
                          /\ last'.ret = Some(pair)
                          /\ get_all("enrollments", file'["enrollments"])
                                 = Append(stored, pair)
                          /\ cache'["enrollments"]
                                 = Append(cache["enrollments"], pair)]_vars

\* a second enrollment of a stored pair in a course that still has room
C21_Witness ==
    /\ last.op = "add_enrollment"
    /\ last.ret = None
    /\ ~last.raised
    /\ Len(cache["enrollments"]) = 1
    /\ cache["enrollments"][1] = [student_id |-> last.arg.student_id,
                                  course_id |-> last.arg.course_id]
    /\ \E i \in 1..Len(cache["courses"]) :
           /\ cache["courses"][i].course_id = last.arg.course_id
           /\ cache["courses"][i].max_students = 2
(***************************** a write that fails ***************************)
\* what a half-written file holds: no JSON document
Truncated == [exists |-> TRUE, data |-> <<[truncated |-> TRUE]>>]

\* save_all whose write raises OSError: open(filename, 'w') raised and the
\* file is as it was, or json.dump raised after open had truncated it
save_all_raising(f) == {f, Truncated}

\* a create that saved first and appended only after the write
save_before_append(entities, entity) == entities

\* the cache when save_data raises: the append came first, load_data was
\* never reached
append_before_save(entities, entity) == Append(entities, entity)

\* nothing catches the error: once a call has raised, the process can only
\* end, and no program starts on a file that holds no JSON document
Running ==
    /\ \A c \in Colls : file[c] # Truncated
    /\ ~last.raised

\* the raise has reached the caller
WriteFailed(c, entity, f) ==
    /\ file' = [file EXCEPT ![c] = f]
    /\ cache' = [cache EXCEPT ![c] = append_before_save(cache[c], entity)]
    /\ last' = Call("OSError", c, entity, None, TRUE)
    /\ UNCHANGED <<app, mgr>>

create_product_raising ==
    /\ Running
    /\ app = "assets_app/products"
    /\ Constructed("products")
    /\ Len(cache["products"]) < Cardinality(SKUs)
    /\ \E product \in NewProducts, f \in save_all_raising(file["products"]) :
         WriteFailed("products", product, f)

add_book_raising ==
    /\ Running
    /\ app = "library_app"
    /\ Constructed("books")
    /\ LET book == [id |-> BookManager_build_new_book_id(file["books"]),
                    title |-> "t", author |-> "a", year |-> "1949",
                    available |-> TRUE]
       IN /\ book \in Books
          /\ \E f \in save_all_raising(file["books"]) :
               WriteFailed("books", book, f)

lib_add_student_raising ==
    /\ Running
    /\ app = "library_app"
    /\ Constructed("lib_students")
    /\ LET student == [student_id |-> LibStudentManager_build_new_student_id(
                                          file["lib_students"]),
                       name |-> "n", last_name |-> "l", phone_number |-> "p",
                       email |-> "e"]
       IN /\ student \in LibStudents
          /\ \E f \in save_all_raising(file["lib_students"]) :
               WriteFailed("lib_students", student, f)

add_student_raising ==
    /\ Running
    /\ app = "students_app"
    /\ Constructed("students")
    /\ LET id == StudentManager_build_new_student_id(file["students"])
       IN /\ ~id.raised
          /\ LET student == [student_id |-> STUDENT_ID_PREFIX \o id.val,
                             name |-> "n", last_name |-> "l",
                             phone_number |-> "p", email |-> "e",
                             address |-> "a"]
             IN /\ student \in AppStudents
                /\ \E f \in save_all_raising(file["students"]) :
                     WriteFailed("students", student, f)

save_enrollment_raising ==
    /\ Running
    /\ app = "students_app"
    /\ Constructed("enrollments")
    /\ Len(cache["enrollments"]) < Cardinality(CourseIds)
    /\ \E student_id \in AppStudentIds, course_id \in CourseIds :
         LET enrollment == EnrollmentManager_enroll_student(file,
                               cache["enrollments"], student_id, course_id)
         IN /\ ~enrollment.raised
            /\ enrollment.val # None
            /\ \E f \in save_all_raising(file["enrollments"]) :
                 WriteFailed("enrollments", enrollment.val[1], f)

WriteFailureInit ==
    /\ Init
    /\ app \in {"assets_app/products", "library_app", "students_app"}

WriteFailureNext ==
    \/ Running /\ ProductManager_init
    \/ Running /\ build_container_library
    \/ Running /\ ManagerInjectors
    \/ Running /\ create_product
    \/ Running /\ add_book
    \/ Running /\ lib_add_student
    \/ Running /\ add_student
    \/ Running /\ add_course
    \/ Running /\ add_enrollment
    \/ create_product_raising
    \/ add_book_raising
    \/ lib_add_student_raising
    \/ add_student_raising
    \/ save_enrollment_raising
    \/ Exit

WriteFailureSpec == WriteFailureInit /\ [][WriteFailureNext]_vars

\* C22: when the repository write raises an I/O error during a create, the
\* error reaches the caller, nothing is reloaded, and the manager's cache
\* holds the new entity after the records it had, one record more than the
\* stored collection, which gained nothing
C22_WriteFailureOutOfSync ==
    [][last'.op = "OSError" =>
          LET c == last'.coll
          IN /\ last'.raised
             /\ cache'[c] = Append(cache[c], last'.arg)
             /\ file'[c] \in {file[c], Truncated}
             /\ file[c].exists => cache[c] = get_all(c, file[c])
             /\ file'[c] = file[c] =>
                    /\ file[c].exists => Len(cache'[c]) = Len(get_all(c, file'[c])) + 1
                    /\ cache'[c] # get_all(c, ensure_json_file(file'[c]))]_vars

\* a create whose write was refused, on a file that holds a record already
C22_Witness ==
    /\ last.op = "OSError"
    /\ file[last.coll].exists
    /\ file[last.coll] # Truncated
    /\ Len(file[last.coll].data) = 1
    /\ Len(cache[last.coll]) = 2
    /\ cache[last.coll][2] = last.arg
CreateOps ==
    {"create_product", "create_product_change", "add_book", "add_student",
     "add_course"}

\* C24: a create never loses stored records: an add/create call made at any
\* point after its manager was constructed leaves the stored collection equal
\* to the collection stored just before the call followed by the new entity,
\* add_book on a freshly constructed BookManager whose file holds books
\* included
C24_CreateKeepsStored ==
    [][(last'.op \in CreateOps /\ ~last'.raised) =>
          LET c == last'.coll
          IN get_all(c, file'[c]) = Append(get_all(c, file[c]), last'.arg)]_vars
DeletionsLogged(f) ==
    LET changes == get_all("changes", f)
        deletion(change) == change.type = "PRODUCTO ELIMINADO"
    IN Len(SelectSeq(changes, deletion))

\* C27: Menu.delete_product appends a "PRODUCTO ELIMINADO" change record only
\* when that call deactivated the product in storage; when the user declines
\* the confirmation no change record is appended
C27_DeletionLoggedOnlyIfDone ==
    [][last'.op = "Menu.delete_product" =>
          LET before == get_all("products", file["products"])
              after == get_all("products", file'["products"])
              deactivated ==
                  \E i \in 1..Len(before) :
                     /\ before[i].id = last'.arg.id
                     /\ before[i].active
                     /\ i <= Len(after)
                     /\ ~after[i].active
          IN /\ DeletionsLogged(file'["changes"]) > DeletionsLogged(file["changes"])
                   => deactivated
             /\ ~last'.arg.answer => file'["changes"] = file["changes"]]_vars
(***************************** library_app: the composed program ************)
\* main(): every run builds the container, then the menu adds students and
\* books and creates loans until the user leaves
LibraryInit ==
    /\ Init
    /\ app = "library_app"

LibraryNext ==
    \/ build_container_library
    \/ lib_add_student
    \/ add_book
    \/ create_loan
    \/ Exit

LibrarySpec == LibraryInit /\ [][LibraryNext]_vars

\* every stored loan is of a book the book file holds as unavailable
LentIsUnavailable(files) ==
    LET loans == get_all("loans", files["loans"])
        books == get_all("books", files["books"])
    IN \A i \in 1..Len(loans) :
          \E j \in 1..Len(books) :
             books[j].id = loans[i].book_id /\ ~books[j].available

MenusInit ==
    /\ app \in {"assets_app/menu", "library_app", "students_app"}
    /\ file = [c \in Colls |-> NoFile]
    /\ cache = [c \in Colls |-> <<>>]
    /\ mgr = [c \in Colls |-> "Uninitialized"]
    /\ last = Call("init", "", None, None, FALSE)

MenusNext ==
    \/ build_container_assets
    \/ option_1_create_product
    \/ option_4_reduce_product_stock
    \/ option_5_get_more_stock_for_product
    \/ option_6_delete_product
    \/ option_8_show_product_changes_by_product
    \/ build_container_library
    \/ lib_add_student
    \/ add_book
    \/ create_loan
    \/ ManagerInjectors
    \/ add_student
    \/ add_course
    \/ add_enrollment
    \/ Exit

MenusSpec == MenusInit /\ [][MenusNext]_vars

\* the collection each program numbers, and the program
NumberedBy ==
    [changes |-> "assets_app/menu", books |-> "library_app",
     loans |-> "library_app", students |-> "students_app",
     courses |-> "students_app"]

\* the id the next create of collection c would give its record, asked of
\* the constructed manager
NextIdOf(c) ==
    CASE c = "changes" ->
           Ok(ProductChangesManager_get_last_id(file["changes"]).ret)
      [] c = "books" -> Ok(BookManager_build_new_book_id(file["books"]))
      [] c = "loans" -> Ok(LoanManager_build_loan_id(cache["loans"]))
      [] c = "students" ->
           LET id == StudentManager_build_new_student_id(file["students"])
           IN IF id.raised THEN id ELSE Ok(STUDENT_ID_PREFIX \o id.val)
      [] c = "courses" ->
           LET id == CourseManager_build_new_course_id(file["courses"])
           IN IF id.raised THEN id ELSE Ok(COURSE_ID_PREFIX \o id.val)

\* C30: in the collections whose ids come from a next-id operation (product
\* change records, books, loans, students_app students and courses), after any
\* sequence of create operations through the menus, every id the next-id
\* operation returns is different from every stored id, and no two stored
\* records of the collection share an id
C30_GeneratedIdsUnique ==
    \A c \in NewIdColls :
       (app = NumberedBy[c] /\ Constructed(c)) =>
          LET stored == get_all(c, file[c])
              key == IdKey(c)
          IN /\ \A i, j \in 1..Len(stored) :
                   stored[i][key] = stored[j][key] => i = j
             /\ ~NextIdOf(c).raised =>
                   \A i \in 1..Len(stored) : stored[i][key] # NextIdOf(c).val

\* a second record was stored, and the manager answers with a third id
C30_Witness ==
    \E c \in NewIdColls :
       /\ app = NumberedBy[c]
       /\ Constructed(c)
       /\ last.op \in {"add_book", "add_student", "add_course", "create_loan",
                       "Menu.reduce_product_stock"}
       /\ Len(get_all(c, file[c])) = 2
       /\ ~NextIdOf(c).raised
       /\ c \in {"students", "courses"} => Len(NextIdOf(c).val) = 4

====
